---- MODULE Spec2Model ----
(***************************************************************************)
(* Schnorr-style non-interactive proof of knowledge of a discrete          *)
(* logarithm (src/src/main.rs): challenge hash, prove, verify, and the     *)
(* to_dict / from_dict serialisation helpers.                              *)
(*                                                                         *)
(* The collaborators (k256, sha2, serde_json, generic-array) are modelled  *)
(* by what they do, scaled down: the curve has secp256k1's equation        *)
(* y^2 = x^3 + 7 but lives over a one-byte prime field, so a field         *)
(* element, a scalar and a digest are one byte wide instead of 32.         *)
(***************************************************************************)
EXTENDS Integers, Sequences, FiniteSets, TLC

VARIABLES sid, pid, x, y, rng, proofs, verified, hashCall, encoded, decoded

vars == <<sid, pid, x, y, rng, proofs, verified, hashCall, encoded, decoded>>

(***************************************************************************)
(* Bounds of the model                                                     *)
(***************************************************************************)
\* longest session id, in bytes (at most 3, the length of the tests' session ids)
MaxSidLen == 1
\* number of prove calls in the repeated-prove specification
MaxProofs == 2

(***************************************************************************)
(* The curve group (k256::ProjectivePoint, k256::Scalar), scaled down      *)
(***************************************************************************)
\* field prime
FieldP == 13
\* curve constant b of y^2 = x^3 + b
CurveB == 7
\* (prime) order of the group
OrderN == 7
\* byte width of a field element, of a scalar, of a digest
FieldLen == 1
ScalarLen == 1
DigestLen == 1
\* byte width of pid: u32::to_be_bytes
PidLen == 4

Scalars == 0..(OrderN - 1)

IDENTITY == [inf |-> TRUE, x |-> 0, y |-> 0]
Pt(a, b) == [inf |-> FALSE, x |-> a, y |-> b]
GENERATOR == Pt(7, 5)

OnCurve(a, b) == (b * b) % FieldP = (a * a * a + CurveB) % FieldP

Points == {IDENTITY} \cup
          {Pt(a, b) : <<a, b>> \in {q \in (0..(FieldP - 1)) \X (0..(FieldP - 1)) : OnCurve(q[1], q[2])}}

FInv(a) == CHOOSE i \in 1..(FieldP - 1) : (i * a) % FieldP = 1

\* ProjectivePoint + ProjectivePoint
PointAdd(p, q) ==
    IF p.inf THEN q
    ELSE IF q.inf THEN p
    ELSE IF p.x = q.x /\ (p.y + q.y) % FieldP = 0 THEN IDENTITY
    ELSE LET lam == IF p.x = q.x
                    THEN (3 * p.x * p.x * FInv((2 * p.y) % FieldP)) % FieldP
                    ELSE ((q.y - p.y + FieldP) * FInv((q.x - p.x + FieldP) % FieldP)) % FieldP
             xr  == (lam * lam + 2 * FieldP - p.x - q.x) % FieldP
             yr  == (lam * (p.x - xr + FieldP) + FieldP - p.y) % FieldP
         IN Pt(xr, yr)

\* ProjectivePoint * Scalar
RECURSIVE PointMul(_, _)
PointMul(p, k) == IF k = 0 THEN IDENTITY ELSE PointAdd(p, PointMul(p, k - 1))

\* Scalar + Scalar, Scalar * Scalar
ScalarAdd(a, b) == (a + b) % OrderN
ScalarMul(a, b) == (a * b) % OrderN

(***************************************************************************)
(* Byte encodings                                                          *)
(***************************************************************************)
RECURSIVE Pow256(_)
Pow256(k) == IF k = 0 THEN 1 ELSE 256 * Pow256(k - 1)

\* fixed-width big-endian bytes of v
to_be_bytes(v, w) == [i \in 1..w |-> (v \div Pow256(w - i)) % 256]

RECURSIVE from_be_bytes(_)
from_be_bytes(b) ==
    IF Len(b) = 0 THEN 0 ELSE from_be_bytes(SubSeq(b, 1, Len(b) - 1)) * 256 + b[Len(b)]

\* width of GroupEncoding::Repr for the curve: the compressed SEC1 point
PointLen == 1 + FieldLen

\* a variant of AffineToBytes that writes the uncompressed SEC1 form (to_encoded_point(false))
AffineToBytes_uncompressed(p) ==
    IF p.inf THEN [i \in 1..(1 + 2 * FieldLen) |-> 0]
    ELSE <<4>> \o to_be_bytes(p.x, FieldLen) \o to_be_bytes(p.y, FieldLen)

\* a variant of AffineToBytes that drops the parity of y: the tag is always 0x02
AffineToBytes_x_only(p) ==
    IF p.inf THEN [i \in 1..PointLen |-> 0]
    ELSE <<2>> \o to_be_bytes(p.x, FieldLen)

\* AffinePoint::to_bytes (GroupEncoding): the compressed SEC1 encoding, tag 0x02 / 0x03 by
\* the parity of y, then x; the identity is the all-zero string of the same width
AffineToBytes(p) ==
    IF p.inf THEN [i \in 1..PointLen |-> 0]
    ELSE <<2 + (p.y % 2)>> \o to_be_bytes(p.x, FieldLen)

\* ProjectivePoint::from_bytes (GroupEncoding): <<>> stands for the CtOption holding none
PointFromBytes(b) ==
    IF b[1] \in {2, 3}
    THEN LET a  == from_be_bytes(SubSeq(b, 2, Len(b)))
             ys == {c \in 0..(FieldP - 1) : OnCurve(a, c) /\ c % 2 = b[1] - 2}
         IN IF a < FieldP /\ ys # {} THEN <<Pt(a, CHOOSE c \in ys : TRUE)>> ELSE <<>>
    ELSE IF \A i \in 1..Len(b) : b[i] = 0 THEN <<IDENTITY>>
    ELSE <<>>

\* Scalar::to_bytes
ScalarToBytes(s) == to_be_bytes(s, ScalarLen)

\* <Scalar as Reduce<U256>>::reduce_bytes
reduce_bytes(b) == from_be_bytes(b) % OrderN

(***************************************************************************)
(* The hash function (sha2::Sha256), scaled down to a one-byte digest      *)
(***************************************************************************)
RECURSIVE Absorb(_, _)
Absorb(h, b) ==
    IF Len(b) = 0 THEN h
    ELSE Absorb((h * 29 + Head(b) + 1 + ((h \div 16) % 16)) % 256, Tail(b))

\* Sha256::new, update, finalize: a digest of DigestLen bytes over the whole input
Sha256(input) == to_be_bytes((Absorb(103, input) * 37 + Len(input)) % 256, DigestLen)

(***************************************************************************)
(* struct DLogProof and its operations                                     *)
(***************************************************************************)
new(t, s) == [t |-> t, s |-> s]

\* a variant of HashInput that writes pid little-endian (to_le_bytes)
HashInput_le(sidv, pidv, points) ==
    LET RECURSIVE Feed(_, _)
        Feed(acc, i) == IF i > Len(points) THEN acc
                        ELSE Feed(acc \o AffineToBytes(points[i]), i + 1)
    IN Feed(sidv \o [i \in 1..PidLen |-> (pidv \div Pow256(i - 1)) % 256], 1)

\* the bytes hash_points feeds to the hasher, update by update
HashInput(sidv, pidv, points) ==
    LET RECURSIVE Feed(_, _)
        Feed(acc, i) == IF i > Len(points) THEN acc
                        ELSE Feed(acc \o AffineToBytes(points[i]), i + 1)
    IN Feed(sidv \o to_be_bytes(pidv, PidLen), 1)

hash_points(sidv, pidv, points) == reduce_bytes(Sha256(HashInput(sidv, pidv, points)))

\* generate_random_number: the scalars Scalar::random can return (the whole field, 0 included)
generate_random_number == Scalars

\* a variant of prove that hashes the points in the order [G, t, y]
prove_swapped(sidv, pidv, xv, yv, r) ==
    LET t == PointMul(GENERATOR, r)
        c == hash_points(sidv, pidv, <<GENERATOR, t, yv>>)
        s == ScalarAdd(r, ScalarMul(c, xv))
    IN new(t, s)

\* a variant of prove that computes the response as r*c + x
prove_mixed(sidv, pidv, xv, yv, r) ==
    LET t == PointMul(GENERATOR, r)
        c == hash_points(sidv, pidv, <<GENERATOR, yv, t>>)
        s == ScalarAdd(ScalarMul(r, c), xv)
    IN new(t, s)

\* a variant of prove that keeps one nonce for every call instead of the drawn one
prove_fixed_nonce(sidv, pidv, xv, yv, r) ==
    LET t == PointMul(GENERATOR, 1)
        c == hash_points(sidv, pidv, <<GENERATOR, yv, t>>)
        s == ScalarAdd(1, ScalarMul(c, xv))
    IN new(t, s)

\* prove, with r the scalar generate_random_number returned to it
prove(sidv, pidv, xv, yv, r) ==
    LET t == PointMul(GENERATOR, r)
        c == hash_points(sidv, pidv, <<GENERATOR, yv, t>>)
        s == ScalarAdd(r, ScalarMul(c, xv))
    IN new(t, s)

\* a variant of verify that multiplies the challenge into G instead of y
verify_generator(self, sidv, pidv, yv) ==
    LET c   == hash_points(sidv, pidv, <<GENERATOR, yv, self.t>>)
        lhs == PointMul(GENERATOR, self.s)
        rhs == PointAdd(self.t, PointMul(GENERATOR, c))
    IN lhs = rhs

\* a variant of verify that leaves y out of the hashed points
verify_without_statement(self, sidv, pidv, yv) ==
    LET c   == hash_points(sidv, pidv, <<GENERATOR, self.t>>)
        lhs == PointMul(GENERATOR, self.s)
        rhs == PointAdd(self.t, PointMul(yv, c))
    IN lhs = rhs

verify(self, sidv, pidv, yv) ==
    LET c   == hash_points(sidv, pidv, <<GENERATOR, yv, self.t>>)
        lhs == PointMul(GENERATOR, self.s)
        rhs == PointAdd(self.t, PointMul(yv, c))
    IN lhs = rhs

(***************************************************************************)
(* serde_json::Value, as far as to_dict and from_dict use it               *)
(***************************************************************************)
JNull == [kind |-> "null", items |-> <<>>]
JArray(b) == [kind |-> "array", items |-> b]
JString(b) == [kind |-> "string", items |-> b]
JNumber(n) == [kind |-> "number", items |-> <<n>>]

RECURSIVE Decimal(_)
Decimal(n) == IF n < 10 THEN <<48 + n>> ELSE Decimal(n \div 10) \o <<48 + (n % 10)>>

\* Value::to_string, then str::as_bytes: the bytes of the compact JSON text
to_string(v) ==
    LET RECURSIVE Items(_, _)
        Items(acc, i) ==
            IF i > Len(v.items) THEN acc
            ELSE Items(acc \o (IF i > 1 THEN <<44>> ELSE <<>>) \o Decimal(v.items[i]), i + 1)
    IN CASE v.kind = "null"   -> <<110, 117, 108, 108>>
         [] v.kind = "number" -> Decimal(v.items[1])
         [] v.kind = "string" -> <<34>> \o v.items \o <<34>>
         [] v.kind = "array"  -> <<91>> \o Items(<<>>, 1) \o <<93>>

to_dict(self) ==
    [t |-> JArray(AffineToBytes(self.t)), s |-> JArray(ScalarToBytes(self.s))]

Panic(where) == [kind |-> "panic", at |-> where, proof |-> <<>>]
Returned(p) == [kind |-> "returned", at |-> "", proof |-> <<p>>]

\* from_dict: either returns a proof or panics, at the slice-to-array conversion
\* (`.into()` asserts the length) or at the unwrap of from_bytes
from_dict(data) ==
    LET t_bytes == to_string(data.t)
        s_bytes == to_string(data.s)
    IN IF Len(t_bytes) # PointLen THEN Panic("t.into")
       ELSE IF PointFromBytes(t_bytes) = <<>> THEN Panic("t.unwrap")
       ELSE IF Len(s_bytes) # ScalarLen THEN Panic("s.into")
       ELSE Returned(new(PointFromBytes(t_bytes)[1], reduce_bytes(s_bytes)))

(***************************************************************************)
(* Inputs                                                                  *)
(***************************************************************************)
\* the session ids of the tests, "sid" and "abc", as bytes
TestSids == {<<115, 105, 100>>, <<97, 98, 99>>}

\* session ids: the prefixes of the tests' session ids, the empty string included
Sids == {SubSeq(q, 1, k) : q \in TestSids, k \in 0..MaxSidLen}

\* prover ids: the tests' pid, and one whose bytes differ by position
Pids == {1, 258}

ValidProofs == {new(t, s) : t \in Points, s \in Scalars}

\* mappings a caller can hand to from_dict besides the output of to_dict
OtherDicts ==
    LET goodT == JArray(AffineToBytes(GENERATOR))
        goodS == JArray(ScalarToBytes(3))
    IN { [t |-> JArray(<<3>>), s |-> goodS],
         [t |-> JArray(<<3, 7, 5>>), s |-> goodS],
         [t |-> JArray(<<2, 0>>), s |-> goodS],
         [t |-> JNull, s |-> goodS],
         [t |-> JString(<<>>), s |-> goodS],
         [t |-> JNumber(37), s |-> goodS],
         [t |-> goodT, s |-> JArray(<<>>)],
         [t |-> goodT, s |-> JArray(<<0, 3>>)],
         [t |-> goodT, s |-> JNull] }

(***************************************************************************)
(* State machine                                                           *)
(***************************************************************************)
\* the harness of main and of the tests: one statement (x, y) in one context
Init ==
    /\ sid \in Sids
    /\ pid \in Pids
    /\ x \in Scalars
    /\ y \in Points
    /\ rng = <<>>
    /\ proofs = <<>>
    /\ verified = <<>>
    /\ hashCall = <<>>
    /\ encoded = <<>>
    /\ decoded = <<>>

\* generate_random_number inside prove: any scalar, logged in rng
Prove(limit) ==
    /\ Len(proofs) < limit
    /\ verified = <<>>
    /\ \E r \in generate_random_number :
          /\ rng' = Append(rng, r)
          /\ proofs' = Append(proofs, prove(sid, pid, x, y, r))
    /\ UNCHANGED <<sid, pid, x, y, verified, hashCall, encoded, decoded>>

Verify ==
    /\ Len(proofs) > 0
    /\ verified = <<>>
    /\ \E vsid \in Sids, vpid \in Pids, vy \in Points :
          verified' = <<[sid |-> vsid, pid |-> vpid, y |-> vy,
                         ok |-> verify(proofs[Len(proofs)], vsid, vpid, vy)]>>
    /\ UNCHANGED <<sid, pid, x, y, rng, proofs, hashCall, encoded, decoded>>

Next == Prove(1) \/ Verify

Spec == Init /\ [][Next]_vars

\* repeated prove calls on the same (sid, pid, x, y)
NextNonce == Prove(MaxProofs)

SpecNonce == Init /\ [][NextNonce]_vars

\* direct calls of hash_points, to_dict and from_dict
InitEnc ==
    /\ sid \in Sids
    /\ pid \in Pids
    /\ x = 0
    /\ y = IDENTITY
    /\ rng = <<>>
    /\ proofs = <<>>
    /\ verified = <<>>
    /\ hashCall = <<>>
    /\ encoded = <<>>
    /\ decoded = <<>>

HashPoints ==
    /\ hashCall = <<>>
    /\ encoded = <<>>
    /\ decoded = <<>>
    /\ \E points \in [1..3 -> Points] :
          hashCall' = <<[points |-> points,
                         input  |-> HashInput(sid, pid, points),
                         out    |-> hash_points(sid, pid, points)]>>
    /\ UNCHANGED <<sid, pid, x, y, rng, proofs, verified, encoded, decoded>>

ToDict ==
    /\ hashCall = <<>>
    /\ encoded = <<>>
    /\ decoded = <<>>
    /\ \E p \in ValidProofs :
          /\ proofs' = <<p>>
          /\ encoded' = <<to_dict(p)>>
    /\ UNCHANGED <<sid, pid, x, y, rng, verified, hashCall, decoded>>

\* from_dict on what to_dict returned
FromDict ==
    /\ encoded # <<>>
    /\ decoded = <<>>
    /\ decoded' = <<from_dict(encoded[1])>>
    /\ UNCHANGED <<sid, pid, x, y, rng, proofs, verified, hashCall, encoded>>

\* from_dict on a mapping that no to_dict call produced
FromOther ==
    /\ hashCall = <<>>
    /\ encoded = <<>>
    /\ decoded = <<>>
    /\ \E data \in OtherDicts :
          /\ encoded' = <<data>>
          /\ decoded' = <<from_dict(data)>>
    /\ UNCHANGED <<sid, pid, x, y, rng, proofs, verified, hashCall>>

NextEnc == HashPoints \/ ToDict \/ FromDict \/ FromOther

SpecEnc == InitEnc /\ [][NextEnc]_vars

(***************************************************************************)
(* Vocabulary of the properties                                            *)
(***************************************************************************)
\* the caller of prove kept its precondition y = x*G
Honest == y = PointMul(GENERATOR, x)

\* the discrete logarithm of a point (the group is cyclic, generated by GENERATOR)
DLog(p) == CHOOSE k \in Scalars : PointMul(GENERATOR, k) = p

\* the challenge prove computed, and the one the last verify call recomputed
ProveChallenge == hash_points(sid, pid, <<GENERATOR, y, proofs[1].t>>)
VerifyChallenge ==
    hash_points(verified[1].sid, verified[1].pid, <<GENERATOR, verified[1].y, proofs[1].t>>)

Verified == verified # <<>>
SameContext == verified[1].sid = sid /\ verified[1].pid = pid
SameStatement == verified[1].y = y

(***************************************************************************)
(* C1: completeness. Whenever prove ran on y = x*G (any x, 0 included, any *)
(* nonce r) and verify is called with the same sid, pid and y, verify      *)
(* returns true.                                                           *)
(***************************************************************************)
Completeness ==
    (Verified /\ Honest /\ SameContext /\ SameStatement) => verified[1].ok

CompletenessWitness ==
    /\ Verified /\ Honest /\ SameContext /\ SameStatement
    /\ x = 0 /\ rng = <<0>>
    /\ verified[1].ok

(***************************************************************************)
(* C2: context binding, as claimed. Whenever prove ran on y = x*G and      *)
(* verify is called with the same y but another sid or another pid, verify *)
(* returns false.                                                          *)
(***************************************************************************)
ContextBinding ==
    (Verified /\ Honest /\ SameStatement /\ ~SameContext) => ~verified[1].ok

(***************************************************************************)
(* C2 as amended: under another sid or pid and the same y = x*G, verify    *)
(* returns true exactly when x = 0 or the recomputed challenge equals the  *)
(* challenge of prove; otherwise it returns false.                         *)
(***************************************************************************)
ContextBindingAmended ==
    (Verified /\ Honest /\ SameStatement /\ ~SameContext)
        => (verified[1].ok <=> (x = 0 \/ VerifyChallenge = ProveChallenge))

ContextBindingWitness ==
    /\ Verified /\ Honest /\ SameStatement /\ ~SameContext
    /\ x # 0
    /\ ~verified[1].ok

RoundTrip ==
    (decoded # <<>> /\ proofs # <<>> /\ encoded = <<to_dict(proofs[1])>>)
        => (decoded[1].kind = "returned" /\ decoded[1].proof = <<proofs[1]>>)

(***************************************************************************)
(* C6: decode rejects malformed input, as claimed. Whenever from_dict ran  *)
(* on a mapping whose t has the wrong length or encodes no curve point, or *)
(* whose s has an unexpected length, it ended with a typed decode error:   *)
(* it neither panicked nor returned a proof.                               *)
(***************************************************************************)
DecodeRejectsMalformed ==
    (decoded # <<>> /\ encoded[1] \in OtherDicts) => decoded[1].kind = "DecodeError"

(***************************************************************************)
(* C7: layout of the challenge hash input. For every call of hash_points   *)
(* the hashed bytes are the sid bytes, then the 4 big-endian bytes of pid, *)
(* then one fixed-width encoding per point in sequence order; the result   *)
(* is a function of these bytes alone; and exchanging two distinct points  *)
(* of the sequence changes the hashed bytes.                               *)
(***************************************************************************)
SwapPoints(points, i, j) ==
    [k \in 1..Len(points) |-> IF k = i THEN points[j] ELSE IF k = j THEN points[i] ELSE points[k]]

HashInputLayout ==
    hashCall # <<>> =>
        LET h     == hashCall[1]
            n     == Len(sid)
            seg(i) == SubSeq(h.input, n + PidLen + (i - 1) * PointLen + 1, n + PidLen + i * PointLen)
        IN /\ Len(h.input) = n + PidLen + Len(h.points) * PointLen
           /\ SubSeq(h.input, 1, n) = sid
           /\ h.input[n + 1] * 16777216 + h.input[n + 2] * 65536
                 + h.input[n + 3] * 256 + h.input[n + 4] = pid
           /\ \A i \in 1..Len(h.points) : PointFromBytes(seg(i)) = <<h.points[i]>>
           /\ h.out = reduce_bytes(Sha256(h.input))
           /\ \A i, j \in 1..Len(h.points) :
                 h.points[i] # h.points[j]
                    => HashInput(sid, pid, SwapPoints(h.points, i, j)) # h.input

HashInputLayoutWitness ==
    /\ hashCall # <<>>
    /\ sid # <<>> /\ pid = 258
    /\ hashCall[1].points[1] # hashCall[1].points[2]
    /\ hashCall[1].points[2] # hashCall[1].points[3]
    /\ hashCall[1].points[3] = IDENTITY

(***************************************************************************)
(* C8: canonical point encoding, as claimed. Every point hash_points       *)
(* hashes and the "t" field of to_dict are the uncompressed form           *)
(* 0x04 || x || y with fixed-width big-endian coordinates, and the encoded *)
(* proof has the length of an uncompressed point plus a scalar.            *)
(***************************************************************************)
Uncompressed(p) == <<4>> \o to_be_bytes(p.x, FieldLen) \o to_be_bytes(p.y, FieldLen)

\* the bytes of hash input h that follow sid and pid, cut at the given point width
PointBytes(h, i, w) ==
    SubSeq(h.input, Len(sid) + PidLen + (i - 1) * w + 1, Len(sid) + PidLen + i * w)

UncompressedEncoding ==
    /\ hashCall # <<>> =>
          \A i \in 1..3 :
             PointBytes(hashCall[1], i, 1 + 2 * FieldLen) = Uncompressed(hashCall[1].points[i])
    /\ (encoded # <<>> /\ proofs # <<>>) =>
          /\ encoded[1].t.items = Uncompressed(proofs[1].t)
          /\ Len(encoded[1].t.items) + Len(encoded[1].s.items) = 1 + 2 * FieldLen + ScalarLen

(***************************************************************************)
(* C8 as amended: every point hash_points hashes and the "t" field of      *)
(* to_dict are the compressed form, tag 0x02 (y even) or 0x03 (y odd) then *)
(* x as a fixed-width big-endian field element, the identity being the     *)
(* all-zero string of that width; "s" is the fixed-width big-endian        *)
(* scalar; so the encoded proof has the fixed length (compressed point     *)
(* length + scalar byte width).                                            *)
(***************************************************************************)
IsCompressed(b, p) ==
    /\ Len(b) = 1 + FieldLen
    /\ IF p = IDENTITY
       THEN \A k \in 1..Len(b) : b[k] = 0
       ELSE /\ b[1] = (IF p.y % 2 = 0 THEN 2 ELSE 3)
            /\ from_be_bytes(SubSeq(b, 2, Len(b))) = p.x

CompressedEncoding ==
    /\ hashCall # <<>> =>
          /\ Len(hashCall[1].input) = Len(sid) + PidLen + 3 * (1 + FieldLen)
          /\ \A i \in 1..3 :
                IsCompressed(PointBytes(hashCall[1], i, 1 + FieldLen), hashCall[1].points[i])
    /\ (encoded # <<>> /\ proofs # <<>>) =>
          /\ IsCompressed(encoded[1].t.items, proofs[1].t)
          /\ Len(encoded[1].s.items) = ScalarLen
          /\ from_be_bytes(encoded[1].s.items) = proofs[1].s
          /\ Len(encoded[1].t.items) + Len(encoded[1].s.items) = 1 + FieldLen + ScalarLen

CompressedEncodingWitness ==
    /\ encoded # <<>> /\ proofs # <<>>
    /\ proofs[1].t # IDENTITY /\ proofs[1].t.y % 2 = 1
    /\ encoded[1].t.items[1] = 3

(***************************************************************************)
(* C9: nonce uniqueness, as claimed. Two calls of prove with the same      *)
(* (sid, pid, x, y) never return the same t.                               *)
(***************************************************************************)
NoRepeatedCommitment ==
    \A i, j \in 1..Len(proofs) : i # j => proofs[i].t # proofs[j].t

(***************************************************************************)
(* C9 as amended: over any sequence of prove calls with the same           *)
(* (sid, pid, x, y), every call draws exactly one nonce from the RNG, its  *)
(* proof is built from that nonce alone (t = r*G, s = r + c*x), and two    *)
(* calls return the same t exactly when the RNG returned the same r to     *)
(* both.                                                                   *)
(***************************************************************************)
NonceUniqueness ==
    /\ Len(rng) = Len(proofs)
    /\ \A i \in 1..Len(proofs) :
          /\ proofs[i].t = PointMul(GENERATOR, rng[i])
          /\ proofs[i].s =
                ScalarAdd(rng[i], ScalarMul(hash_points(sid, pid, <<GENERATOR, y, proofs[i].t>>), x))
    /\ \A i, j \in 1..Len(proofs) : (proofs[i].t = proofs[j].t) <=> (rng[i] = rng[j])

NonceUniquenessWitness ==
    /\ Len(proofs) = 2
    /\ rng[1] # rng[2]
    /\ proofs[1].t # proofs[2].t

(***************************************************************************)
(* C10: transcript injectivity. For the three-point sequences [G, y, t]    *)
(* that prove and verify hand to hash_points, the hashed bytes determine   *)
(* (sid, pid, y, t): every other tuple yields other bytes, so a change in  *)
(* any of sid, pid, y or t changes the input of the challenge hash.        *)
(***************************************************************************)
Transcript(sidv, pidv, yv, t) == HashInput(sidv, pidv, <<GENERATOR, yv, t>>)

TranscriptInjective ==
    (hashCall # <<>> /\ hashCall[1].points[1] = GENERATOR) =>
        \A s2 \in Sids, p2 \in Pids, y2 \in Points, t2 \in Points :
           <<s2, p2, y2, t2>> # <<sid, pid, hashCall[1].points[2], hashCall[1].points[3]>>
              => Transcript(s2, p2, y2, t2) # hashCall[1].input

TranscriptInjectiveWitness ==
    /\ hashCall # <<>> /\ hashCall[1].points[1] = GENERATOR
    /\ sid # <<>> /\ pid = 258
    /\ hashCall[1].points[2] = IDENTITY
    /\ hashCall[1].points[3] = Pt(7, 8)

====
